---- MODULE Spec2Model ----
(***************************************************************************)
(* Border Snapper (src/app.py): the snap-and-clip engine, the projection   *)
(* selector, the geoBoundaries loader with its file cache, and the         *)
(* "Run snap & clip" handler with the session state it stores.             *)
(*                                                                         *)
(* Geometry is modelled on one axis of the projected plane: a polygonal    *)
(* geometry is a finite set of disjoint, non-touching intervals <<lo, hi>> *)
(* with lo < hi (its parts), coordinates in centimetres (integers, >= 0).  *)
(* A part's ring has exactly two vertices, lo and hi.  Reprojection        *)
(* (to_crs) keeps the coordinates and changes the frame a geometry is      *)
(* tagged with; all metric work is done in the projected frame.            *)
(***************************************************************************)
EXTENDS Integers, Sequences, FiniteSets, TLC

\* metres to model units (centimetres)
M(n) == n * 100

\* values standing for "nothing": an unset local, the coordinate of an
\* empty point, the (lon, lat) of an empty geometry
None == "None"
NoPoint == 0 - 1
NoLonLat == <<>>

Max(a, b) == IF a >= b THEN a ELSE b
Min(a, b) == IF a <= b THEN a ELSE b
Abs(a) == IF a >= 0 THEN a ELSE 0 - a

SetMin(S) == CHOOSE x \in S : \A y \in S : x <= y

(***************************************************************************)
(* Geometry kernel (shapely / GEOS operations used by app.py)              *)
(***************************************************************************)
EmptyGeom == {}

\* vertices of a set of (possibly overlapping or degenerate) intervals
Pts(S) == {i[1] : i \in S} \cup {i[2] : i \in S}

\* the stretch immediately right of x is covered by S
CovR(S, x) == \E i \in S : i[1] <= x /\ x < i[2]
\* the stretch immediately left of x is covered by S
CovL(S, x) == \E i \in S : i[1] < x /\ x <= i[2]

\* the maximal intervals on the lattice P, given the vertices RS covered
\* immediately to their right and the vertices LS covered to their left
Build(P, RS, LS) ==
    LET starts == {x \in P : x \in RS /\ x \notin LS}
        ends   == {x \in P : x \in LS /\ x \notin RS}
    IN  {<<a, SetMin({e \in ends : e > a})>> : a \in starts}

\* make_valid followed by buffer(0): degenerate parts vanish, overlapping
\* and touching parts merge
MakeValid(S) ==
    LET T == {i \in S : i[1] < i[2]}
    IN  Build(Pts(T), {x \in Pts(T) : CovR(T, x)}, {x \in Pts(T) : CovL(T, x)})

\* unary_union / union_all of a set of geometries
UnaryUnion(Gs) == MakeValid(UNION Gs)

\* a.intersection(b); lower-dimensional pieces (touching points) are kept
\* as degenerate intervals until the next repair
Intersection(A, B) ==
    {<<Max(a[1], b[1]), Min(a[2], b[2])>> :
        <<a, b>> \in {p \in A \X B : Max(p[1][1], p[2][1]) <= Min(p[1][2], p[2][2])}}

\* a.difference(b)
Difference(A, B) ==
    LET P == Pts(A) \cup Pts(B)
    IN  Build(P, {x \in P : CovR(A, x) /\ ~CovR(B, x)},
                 {x \in P : CovL(A, x) /\ ~CovL(B, x)})

\* a.intersects(b): the closed sets share a point
Intersects(A, B) ==
    \E a \in A, b \in B : Max(a[1], b[1]) <= Min(a[2], b[2])

\* g.buffer(d), d >= 0
Buffer(G, d) == MakeValid({<<Max(0, i[1] - d), i[2] + d>> : i \in G})

\* g.boundary: the line-work of a polygonal geometry (here its vertices)
Boundary(G) == Pts(G)

\* A is contained in B (nothing of A lies outside B)
Within(A, B) == \A a \in A : a[1] = a[2] \/ \E b \in B : b[1] <= a[1] /\ a[2] <= b[2]

RECURSIVE SumLen(_), SumMoment(_)
SumLen(G) ==
    IF G = {} THEN 0
    ELSE LET i == CHOOSE j \in G : TRUE IN (i[2] - i[1]) + SumLen(G \ {i})
SumMoment(G) ==
    IF G = {} THEN 0
    ELSE LET i == CHOOSE j \in G : TRUE
         IN (i[2] * i[2] - i[1] * i[1]) + SumMoment(G \ {i})

\* g.centroid (length-weighted, to the unit); an empty point for an empty
\* geometry
Centroid(G) == IF SumLen(G) = 0 THEN NoPoint ELSE SumMoment(G) \div (2 * SumLen(G))

\* point.buffer(r): the disk around a point
PointBuffer(c, r) == IF r > 0 THEN {<<Max(0, c - r), c + r>>} ELSE EmptyGeom

\* polygon.contains(point): the point is interior to a part
ContainsPoint(G, c) == \E i \in G : i[1] < c /\ c < i[2]

\* round to the nearest multiple of grid (coordinates are >= 0)
RoundTo(x, grid) == ((2 * x + grid) \div (2 * grid)) * grid

\* shapely.set_precision(g, grid): every vertex moves to the grid,
\* collapsed parts vanish, the result is valid
SetPrecision(G, grid) ==
    MakeValid({<<RoundTo(i[1], grid), RoundTo(i[2], grid)>> : i \in G})

\* the reference vertex a subject vertex v is snapped to, v itself if none
\* lies within tol
SnapVertex(v, lines, tol) ==
    LET near == {b \in lines : Abs(b - v) <= tol}
    IN  IF near = {} THEN v
        ELSE SetMin({b \in near : \A c \in near : Abs(b - v) <= Abs(c - v)})

\* shapely.ops.snap(g, reference, tol): vertices move, nothing is repaired
Snap(G, lines, tol) ==
    {<<SnapVertex(i[1], lines, tol), SnapVertex(i[2], lines, tol)>> : i \in G}

\* g.simplify(tol, preserve_topology=True): Douglas-Peucker keeps the end
\* vertices of every ring and drops no ring; a part on one axis has no
\* other vertex
Simplify(G, tol) == G

(***************************************************************************)
(* Geometry repair utility and projection selector                         *)
(***************************************************************************)
\* fix_geom: exceptions of the three library calls are swallowed, so it
\* always returns (no caller passes None: every argument is a geometry)
fix_geom(g, grid_size, apply_precision) ==
    IF g = EmptyGeom THEN g
    ELSE MakeValid(IF apply_precision /\ grid_size > 0
                   THEN SetPrecision(g, grid_size) ELSE g)

\* int(x / d) for a float x: truncation towards zero
IntTrunc(x, d) == IF x >= 0 THEN x \div d ELSE 0 - ((0 - x) \div d)

utm_zone(lon) == IntTrunc(lon + 180, 6) + 1

\* choose_projected_crs: the EPSG code of the projected frame; the centroid
\* of an empty geometry has no coordinates and the except branch answers
choose_projected_crs(lonlat) ==
    IF lonlat = NoLonLat THEN 3857
    ELSE IF lonlat[2] >= 0 THEN 32600 + utm_zone(lonlat[1])
         ELSE 32700 + utm_zone(lonlat[1])

(***************************************************************************)
(* Boundary candidate matcher (inside snap_and_clip)                       *)
(***************************************************************************)
\* features of the boundary collection intersecting the subject buffered
\* by the search radius
ByBuffer(subject, boundary, match_buffer_m) ==
    {k \in DOMAIN boundary : Intersects(boundary[k], Buffer(subject, match_buffer_m))}

\* features containing the subject's centroid
ByCentroid(subject, boundary) ==
    {k \in DOMAIN boundary : ContainsPoint(boundary[k], Centroid(subject))}

centroid_dist(subject, boundary, k) == Abs(Centroid(boundary[k]) - Centroid(subject))

\* head(1) without the sort: the first row of the frame
NearestFirstRow(subject, boundary) ==
    IF DOMAIN boundary = {} THEN {} ELSE {1}

\* sort_values("centroid_dist").head(1): the first row of the sorted frame
NearestCentroid(subject, boundary) ==
    IF DOMAIN boundary = {} THEN {}
    ELSE {SetMin({k \in DOMAIN boundary : \A j \in DOMAIN boundary :
            centroid_dist(subject, boundary, k) <= centroid_dist(subject, boundary, j)})}

\* which of the three selections yields the candidates
MatchStage(subject, boundary, match_buffer_m) ==
    IF ByBuffer(subject, boundary, match_buffer_m) # {} THEN "buffer"
    ELSE IF ByCentroid(subject, boundary) # {} THEN "centroid"
    ELSE "nearest"

\* the cascade without its last fallback
CandidatesNoNearest(subject, boundary, match_buffer_m) ==
    IF ByBuffer(subject, boundary, match_buffer_m) # {}
    THEN ByBuffer(subject, boundary, match_buffer_m)
    ELSE ByCentroid(subject, boundary)

Candidates(subject, boundary, match_buffer_m) ==
    LET stage == MatchStage(subject, boundary, match_buffer_m)
    IN  IF stage = "buffer" THEN ByBuffer(subject, boundary, match_buffer_m)
        ELSE IF stage = "centroid" THEN ByCentroid(subject, boundary)
        ELSE NearestCentroid(subject, boundary)

\* one-fifth of the tolerance, without the floor of one metre
RetryToleranceFifth(tolerance_m) == tolerance_m \div 5

\* the tolerance of the second snap attempt
RetryTolerance(tolerance_m) == Max(M(1), tolerance_m \div 5)

(***************************************************************************)
(* Inputs the model draws from                                             *)
(***************************************************************************)
\* boundary features (projected, cm): country A from 0.4 m to 10 m, its
\* neighbour B from 10 m to 20 m, country C with an island off its coast
F_A == {<<40, 1000>>}
F_B == {<<1000, 2000>>}
F_C == {<<3000, 3460>>, <<3700, 3800>>}

\* boundary collections after the handler's polygon filter: never empty
BoundarySamples == {<<F_A>>, <<F_A, F_B>>, <<F_B, F_A>>, <<F_C>>}

\* subject uploads: the polygon features and the centroid (lon, lat) of
\* their union in EPSG:4326
SubjectSamples ==
    { [features |-> <<{<<0, 800>>}>>,                   lonlat |-> <<103, 1>>],
      [features |-> <<{<<900, 1150>>}>>,                lonlat |-> <<-60, -10>>],
      [features |-> <<{<<5000, 5200>>}>>,               lonlat |-> <<180, -17>>],
      [features |-> <<{<<3100, 3200>>}, {<<3300, 3400>>}>>, lonlat |-> <<12, 45>>],
      [features |-> <<{<<0, 20>>, <<1500, 1520>>}>>,    lonlat |-> <<-180, 0>>],
      [features |-> <<{<<20, 70>>}>>,                   lonlat |-> <<179, 60>>] }

\* the largest snap tolerance tried, in metres
MaxTolM == 10

Tolerances     == {M(1), M(3), M(MaxTolM)}
IslandRadii    == {0, M(2), M(10)}
\* 0 stands for both None and 0: the handler passes None for 0 (line 619)
\* and line 340 treats the two alike
SimplifyTols   == {0, M(1)}
PrecisionGrids == {0, 10, 100}
MatchBuffers   == {0, M(10)}

EngineArgs ==
    [subject_gdf : SubjectSamples, boundary_gdf : BoundarySamples,
     tolerance_m : Tolerances, include_islands_within_m : IslandRadii,
     simplify_tol_m : SimplifyTols, precision_grid_m : PrecisionGrids,
     match_buffer_m : MatchBuffers]

(***************************************************************************)
(* State                                                                   *)
(***************************************************************************)
VARIABLES
    args,           \* snap_and_clip's arguments
    f,              \* snap_and_clip's locals
    epc,            \* snap_and_clip's position
    pc,             \* the run handler's position
    ui,             \* the widget values the run has read
    h,              \* the run handler's locals
    outcome,        \* how the run ended (the message shown)
    net,            \* the HTTP requests the run has issued
    session_state,  \* st.session_state
    ss_before,      \* st.session_state as it was when Run was clicked
    cache,          \* the files of CACHE_DIR
    memo_meta,      \* st.cache_data of fetch_geoboundary_metadata
    memo_download,  \* st.cache_data of download_geoboundary_to_cache
    lonlat_in,      \* the centroid handed to choose_projected_crs
    crs_out,        \* the identifier it returned
    gdf_in,         \* the frame handed to dissolve_to_single_feature
    grid_in,        \* its precision_grid_m
    gdf_out,        \* the frame it returned
    c_meta,         \* concurrent runs: the metadata of their common key
    c_pref,         \* concurrent runs: each run's prefer_simplified
    c_pc,           \* concurrent runs: each run's position in the loader
    c_loc,          \* concurrent runs: each run's locals
    c_file,         \* concurrent runs: the cache file of the key
    c_memo          \* concurrent runs: st.cache_data of the download

engVars == <<args, f, epc>>
runVars == <<pc, ui, h, outcome, net, session_state, ss_before>>
loaderVars == <<cache, memo_meta, memo_download>>
projVars == <<lonlat_in, crs_out>>
dissVars == <<gdf_in, grid_in, gdf_out>>
concVars == <<c_meta, c_pref, c_pc, c_loc, c_file, c_memo>>
sideVars == <<projVars, dissVars, concVars>>
appVars == <<runVars, loaderVars>>
vars == <<engVars, appVars, sideVars>>

\* the locals before the first statement; snap_calls, island_raised and
\* clipped_plain record what happened (the tolerances handed to
\* shapely_snap, an exception caught by the island block, the clip result
\* as it stood before the island block)
Frame0 ==
    [proj_crs |-> 0, candidates |-> {}, boundary_lines_proj |-> {},
     subject_proj |-> {}, target_proj |-> {}, snapped |-> {},
     clipped |-> {}, island_included |-> FALSE, island_parts |-> 0,
     diff |-> {}, buffer_region |-> {}, extra_parts |-> {},
     result |-> None, report |-> None,
     snap_calls |-> <<>>, island_raised |-> FALSE, clipped_plain |-> {}]

Feats(gdf) == {gdf[k] : k \in DOMAIN gdf}

Grid == args.precision_grid_m
Fix(g) == fix_geom(g, Grid, Grid > 0)

subject_union == UnaryUnion(Feats(args.subject_gdf.features))

\* the island block if the repair after the union could raise as well
IslandRaisePointsWithFix ==
    {"isl_diff", "isl_buffer", "isl_select", "isl_union", "isl_fix"}

\* the statements of the island block that can raise: the difference, the
\* disk buffer, the intersection tests and the union (fix_geom cannot)
IslandRaisePoints == {"isl_diff", "isl_buffer", "isl_select", "isl_union"}

(***************************************************************************)
(* snap_and_clip, statement by statement                                   *)
(***************************************************************************)
\* lines 276-292: union, projection, candidate features
SelectCandidates ==
    /\ epc = "match"
    /\ f' = [f EXCEPT
            !.proj_crs = choose_projected_crs(
                IF subject_union = EmptyGeom THEN NoLonLat ELSE args.subject_gdf.lonlat),
            !.candidates = Candidates(subject_union, args.boundary_gdf,
                                      args.match_buffer_m)]
    /\ epc' = "prepare"
    /\ UNCHANGED <<args, appVars, sideVars>>

\* lines 294-304: boundary line-work, target polygon, repair of both
PrepareTarget ==
    /\ epc = "prepare"
    /\ LET candidates_union_proj ==
               UnaryUnion({args.boundary_gdf[k] : k \in f.candidates})
       IN f' = [f EXCEPT
            !.boundary_lines_proj = Boundary(candidates_union_proj),
            !.subject_proj = Fix(subject_union),
            !.target_proj = Fix(UnaryUnion({args.boundary_gdf[k] : k \in f.candidates}))]
    /\ epc' = "snap"
    /\ UNCHANGED <<args, appVars, sideVars>>

\* lines 307-308, 311: the snap at the requested tolerance succeeds
SnapOk ==
    /\ epc = "snap"
    /\ f' = [f EXCEPT
            !.snap_calls = Append(@, args.tolerance_m),
            !.snapped = Fix(Snap(f.subject_proj, f.boundary_lines_proj,
                                 args.tolerance_m))]
    /\ epc' = "clip"
    /\ UNCHANGED <<args, appVars, sideVars>>

\* lines 307-309: the snap at the requested tolerance raises
SnapRaises ==
    /\ epc = "snap"
    /\ f' = [f EXCEPT !.snap_calls = Append(@, args.tolerance_m)]
    /\ epc' = "snap_retry"
    /\ UNCHANGED <<args, appVars, sideVars>>

\* lines 310-311: the second attempt succeeds
SnapRetryOk ==
    /\ epc = "snap_retry"
    /\ f' = [f EXCEPT
            !.snap_calls = Append(@, RetryTolerance(args.tolerance_m)),
            !.snapped = Fix(Snap(f.subject_proj, f.boundary_lines_proj,
                                 RetryTolerance(args.tolerance_m)))]
    /\ epc' = "clip"
    /\ UNCHANGED <<args, appVars, sideVars>>

\* line 310: the second attempt raises inside the except clause; nothing
\* catches it
SnapRetryRaises ==
    /\ epc = "snap_retry"
    /\ f' = [f EXCEPT !.snap_calls = Append(@, RetryTolerance(args.tolerance_m))]
    /\ epc' = "raised"
    /\ UNCHANGED <<args, appVars, sideVars>>

\* lines 314-320: clip to the target polygon, repair, enter the island
\* block when a radius is given
ClipOk ==
    /\ epc = "clip"
    /\ LET clipped == Fix(Intersection(f.snapped, f.target_proj))
       IN f' = [f EXCEPT !.clipped = clipped, !.clipped_plain = clipped]
    /\ epc' = IF args.include_islands_within_m > 0 THEN "isl_diff" ELSE "finish"
    /\ UNCHANGED <<args, appVars, sideVars>>

\* line 314: the intersection raises
ClipRaises ==
    /\ epc = "clip"
    /\ epc' = "raised"
    /\ UNCHANGED <<args, f, appVars, sideVars>>

\* lines 322-325
IslandDiff ==
    /\ epc = "isl_diff"
    /\ f' = [f EXCEPT !.diff = Fix(Difference(Fix(f.target_proj), Fix(f.clipped)))]
    /\ epc' = "isl_buffer"
    /\ UNCHANGED <<args, appVars, sideVars>>

\* line 326; the centroid of an empty subject is an empty point and so is
\* its buffer
IslandBuffer ==
    /\ epc = "isl_buffer"
    /\ f' = [f EXCEPT !.buffer_region =
                IF Centroid(f.subject_proj) = NoPoint THEN EmptyGeom
                ELSE PointBuffer(Centroid(f.subject_proj),
                                 args.include_islands_within_m)]
    /\ epc' = "isl_select"
    /\ UNCHANGED <<args, appVars, sideVars>>

\* lines 327-331
IslandSelect ==
    /\ epc = "isl_select"
    /\ LET parts == {part \in f.diff : Intersects({part}, f.buffer_region)}
       IN /\ f' = [f EXCEPT !.extra_parts = parts]
          /\ epc' = IF parts # {} THEN "isl_union" ELSE "finish"
    /\ UNCHANGED <<args, appVars, sideVars>>

\* line 332
IslandUnion ==
    /\ epc = "isl_union"
    /\ f' = [f EXCEPT !.clipped = UnaryUnion({f.clipped, f.extra_parts})]
    /\ epc' = "isl_fix"
    /\ UNCHANGED <<args, appVars, sideVars>>

\* lines 333-335
IslandFix ==
    /\ epc = "isl_fix"
    /\ f' = [f EXCEPT !.clipped = Fix(f.clipped),
                      !.island_included = TRUE,
                      !.island_parts = Cardinality(f.extra_parts)]
    /\ epc' = "finish"
    /\ UNCHANGED <<args, appVars, sideVars>>

\* lines 336-337: an exception of the island block is caught and dropped
IslandRaises ==
    /\ epc \in IslandRaisePoints
    /\ f' = [f EXCEPT !.island_raised = TRUE]
    /\ epc' = "finish"
    /\ UNCHANGED <<args, appVars, sideVars>>

report(a, fr) ==
    [proj_crs |-> fr.proj_crs,
     used_tolerance_m |-> a.tolerance_m,
     include_islands_within_m |-> a.include_islands_within_m,
     islands_included |-> fr.island_included,
     island_parts_added |-> fr.island_parts,
     simplify_tol_m |-> a.simplify_tol_m,
     precision_grid_m |-> a.precision_grid_m,
     match_buffer_m |-> a.match_buffer_m,
     input_features |-> Len(a.subject_gdf.features),
     boundary_features |-> Len(a.boundary_gdf),
     candidate_clip_features |-> Cardinality(fr.candidates)]

\* lines 339-342: final repair and optional simplification of clipped
clipped_clean(clipped) ==
    IF args.simplify_tol_m > 0
    THEN Fix(Simplify(Fix(clipped), args.simplify_tol_m))
    ELSE Fix(clipped)

\* lines 339-360: final repair, optional simplification, reprojection to
\* EPSG:4326, report
Finish ==
    /\ epc = "finish"
    /\ f' = [f EXCEPT !.result = [crs |-> 4326,
                                  geometry |-> <<clipped_clean(f.clipped)>>],
                      !.report = report(args, f)]
    /\ epc' = "returned"
    /\ UNCHANGED <<args, appVars, sideVars>>

\* line 341: simplify raises
SimplifyRaises ==
    /\ epc = "finish"
    /\ args.simplify_tol_m > 0
    /\ epc' = "raised"
    /\ UNCHANGED <<args, f, appVars, sideVars>>

snap_and_clip ==
    \/ SelectCandidates \/ PrepareTarget
    \/ SnapOk \/ SnapRaises \/ SnapRetryOk \/ SnapRetryRaises
    \/ ClipOk \/ ClipRaises
    \/ IslandDiff \/ IslandBuffer \/ IslandSelect \/ IslandUnion \/ IslandFix
    \/ IslandRaises
    \/ Finish \/ SimplifyRaises

(***************************************************************************)
(* Single-feature reduction and KML export                                 *)
(***************************************************************************)
\* the frame None
NoneGdf == [none |-> TRUE]

\* every row repaired on its own, nothing merged
DissolveRowByRow(gdf, precision_grid_m) ==
    IF gdf = NoneGdf \/ Len(gdf.geometry) = 0 THEN gdf
    ELSE [crs |-> gdf.crs,
          geometry |-> [k \in DOMAIN gdf.geometry |->
                          fix_geom(gdf.geometry[k], precision_grid_m,
                                   precision_grid_m > 0)]]

\* dissolve_to_single_feature: a frame is [crs, geometry], geometry the
\* sequence of its rows
dissolve_to_single_feature(gdf, precision_grid_m) ==
    IF gdf = NoneGdf \/ Len(gdf.geometry) = 0 THEN gdf
    ELSE [crs |-> gdf.crs,
          geometry |-> <<fix_geom(UnaryUnion(Feats(gdf.geometry)),
                                  precision_grid_m, precision_grid_m > 0)>>]

\* gdf_to_simple_kml: one Placemark snapped_i per polygon part of row i,
\* holding the part's exterior ring; empty rows are skipped
gdf_to_simple_kml(gdf) ==
    UNION {{<<k, part>> : part \in gdf.geometry[k]} : k \in DOMAIN gdf.geometry}

(***************************************************************************)
(* Uploads and the geoBoundaries server                                    *)
(***************************************************************************)
Poly(g) == [type |-> "Polygon", geom |-> g]
Line == [type |-> "LineString", geom |-> EmptyGeom]
Point == [type |-> "Point", geom |-> EmptyGeom]

\* what the file uploader holds: nothing, a file gpd.read_file rejects, a
\* file of lines and points, files with polygons
NoUpload   == [present |-> FALSE, readable |-> FALSE, features |-> <<>>,
               lonlat |-> NoLonLat]
BadUpload  == [present |-> TRUE, readable |-> FALSE, features |-> <<>>,
               lonlat |-> NoLonLat]
LineUpload == [present |-> TRUE, readable |-> TRUE, features |-> <<Line, Point>>,
               lonlat |-> <<103, 1>>]

SubjectUploads ==
    {NoUpload, BadUpload, LineUpload,
     [present |-> TRUE, readable |-> TRUE,
      features |-> <<Poly({<<0, 800>>}), Line>>, lonlat |-> <<103, 1>>]}

BoundaryUploads ==
    {NoUpload, BadUpload, LineUpload,
     [present |-> TRUE, readable |-> TRUE,
      features |-> <<Poly(F_A), Line, Poly(F_B)>>, lonlat |-> NoLonLat]}

\* the rows whose geometry type is Polygon or MultiPolygon, in order
PolygonRows(features) ==
    SelectSeq(features, LAMBDA ft : ft.type \in {"Polygon", "MultiPolygon"})

\* the polygon filter left out
AllRows(features) == features

\* gdf[gdf.geometry.type.isin(["Polygon", "MultiPolygon"])]
PolygonFilter(features) == PolygonRows(features)

\* the emptiness test answering "not empty" whatever the frame holds
NeverEmpty(rows) == FALSE

\* gdf.empty
gdf_empty(rows) == Len(rows) = 0

\* the geometry column after fix_geom(g, 0.0, False) on every row
FixedGeoms(features) == [k \in DOMAIN features |-> fix_geom(features[k].geom, 0, FALSE)]

GEO == "geoBoundaries (recommended)"
UPLOAD == "Upload boundary file"

Iso3s == {"AAA"}
NoIso3 == ""
Releases == {"gbOpen", "gbHumanitarian"}

\* the cache file name: iso3, ADM level, release
CacheKey(iso3, adm_level, release) == <<iso3, adm_level, release>>

UrlFields == {"gjDownloadURL", "gjDownloadURL_small", "shapeDownloadURL"}

\* the metadata records the API may answer for a key: a record holds the
\* download URLs it names
Metas(key) ==
    {[fld \in D |-> <<key, fld>>] :
        D \in {UrlFields, {"gjDownloadURL_small", "shapeDownloadURL"}, {}}}

\* the features of the file the server holds at a URL
ServerFile(url) ==
    IF url[2] = "gjDownloadURL" THEN <<Poly(F_A), Poly(F_B)>>
    ELSE IF url[2] = "gjDownloadURL_small" THEN <<Poly({<<0, 1000>>}), Poly(F_B)>>
    ELSE <<Poly(F_A)>>

\* lines 222-230: the download URLs in order of preference
urls(meta, prefer_simplified) ==
    (IF "gjDownloadURL" \in DOMAIN meta THEN <<meta["gjDownloadURL"]>> ELSE <<>>)
    \o (IF prefer_simplified /\ "gjDownloadURL_small" \in DOMAIN meta
        THEN <<meta["gjDownloadURL_small"]>> ELSE <<>>)
    \o (IF "shapeDownloadURL" \in DOMAIN meta THEN <<meta["shapeDownloadURL"]>> ELSE <<>>)

\* the existence test skipped: every call downloads
AlwaysMissing(files, key) == TRUE

\* line 235: not cache_fname.exists()
CacheMissing(files, key) == key \notin DOMAIN files

\* the values of the Advanced geometry options a run is made with
WidgetParams ==
    { [tolerance_m |-> M(3), include_islands_within_m |-> M(10),
       simplify_tol_m |-> M(1), precision_grid_m |-> 100, match_buffer_m |-> M(10)] }

\* the widgets as the page first shows them
UiDefaults ==
    [uploaded_poly |-> NoUpload, boundary_source |-> GEO,
     uploaded_boundary |-> NoUpload, resolved_iso3 |-> "AAA", adm_level |-> 0,
     release |-> "gbOpen", prefer_simplified |-> FALSE,
     allow_online_fallback |-> FALSE]

NoGdf == [features |-> <<>>, lonlat |-> NoLonLat]
NoArgs ==
    [subject_gdf |-> NoGdf, boundary_gdf |-> <<>>, tolerance_m |-> 0,
     include_islands_within_m |-> 0, simplify_tol_m |-> 0, precision_grid_m |-> 0,
     match_buffer_m |-> 0]

\* the handler's locals before its first statement
H0 ==
    [subj_gdf |-> NoGdf, boundary_raw |-> <<>>, boundary_gdf |-> <<>>,
     resolved_iso3 |-> NoIso3, meta |-> <<>>, used_url |-> <<>>,
     content |-> <<>>, has_geob_info |-> FALSE]

Key == CacheKey(h.resolved_iso3, ui.adm_level, ui.release)
MemoKey == <<h.meta, Key, ui.prefer_simplified>>

InputErrors == {"no_upload", "no_polygons", "no_boundary_file", "boundary_empty"}

\* st.stop(): the script run ends with the message shown
Stop(msg) ==
    /\ outcome' = msg
    /\ pc' = "done"

(***************************************************************************)
(* The "Run snap & clip" handler                                           *)
(***************************************************************************)
\* line 560: the button is clicked with some file (or none) in the uploader
RunClick ==
    /\ pc \in {"idle", "done"}
    /\ \E up \in SubjectUploads : ui' = [UiDefaults EXCEPT !.uploaded_poly = up]
    /\ h' = H0
    /\ outcome' = "running"
    /\ net' = {}
    /\ ss_before' = session_state
    /\ pc' = "load_subject"
    /\ args' = NoArgs /\ f' = Frame0 /\ epc' = "idle"
    /\ UNCHANGED <<session_state, loaderVars, sideVars>>

\* lines 561-563
UploadMissing ==
    /\ pc = "load_subject"
    /\ ~ui.uploaded_poly.present
    /\ Stop("no_upload")
    /\ UNCHANGED <<engVars, ui, h, net, session_state, ss_before, loaderVars, sideVars>>

\* lines 566-570
SubjectUnreadable ==
    /\ pc = "load_subject"
    /\ ui.uploaded_poly.present /\ ~ui.uploaded_poly.readable
    /\ Stop("subject_unreadable")
    /\ UNCHANGED <<engVars, ui, h, net, session_state, ss_before, loaderVars, sideVars>>

\* lines 572-575
SubjectNoPolygons ==
    /\ pc = "load_subject"
    /\ ui.uploaded_poly.present /\ ui.uploaded_poly.readable
    /\ gdf_empty(PolygonFilter(ui.uploaded_poly.features))
    /\ Stop("no_polygons")
    /\ UNCHANGED <<engVars, ui, h, net, session_state, ss_before, loaderVars, sideVars>>

\* lines 572-583: the subject is kept; the boundary widgets are read
SubjectLoaded ==
    /\ pc = "load_subject"
    /\ ui.uploaded_poly.present /\ ui.uploaded_poly.readable
    /\ ~gdf_empty(PolygonFilter(ui.uploaded_poly.features))
    /\ h' = [h EXCEPT !.subj_gdf =
                [features |-> FixedGeoms(PolygonFilter(ui.uploaded_poly.features)),
                 lonlat |-> ui.uploaded_poly.lonlat]]
    /\ \/ \E iso \in Iso3s \cup {NoIso3}, rel \in Releases, ps \in BOOLEAN,
             allow \in BOOLEAN :
             /\ ui' = [ui EXCEPT !.boundary_source = GEO, !.resolved_iso3 = iso,
                                 !.release = rel, !.prefer_simplified = ps,
                                 !.allow_online_fallback = allow]
             /\ pc' = "resolve_iso3"
       \/ \E up \in BoundaryUploads :
             /\ ui' = [ui EXCEPT !.boundary_source = UPLOAD, !.uploaded_boundary = up]
             /\ pc' = "load_boundary_file"
    /\ UNCHANGED <<engVars, outcome, net, session_state, ss_before, loaderVars, sideVars>>

\* line 585: the dropdown resolved the country
Iso3Known ==
    /\ pc = "resolve_iso3"
    /\ ui.resolved_iso3 # NoIso3
    /\ h' = [h EXCEPT !.resolved_iso3 = ui.resolved_iso3]
    /\ pc' = "fetch_meta"
    /\ UNCHANGED <<engVars, ui, outcome, net, session_state, ss_before, loaderVars, sideVars>>

\* lines 586, 117-122, 595-598: no country is selected, the offline lookup
\* raises on the empty name and the online fallback is not allowed
Iso3OfflineFails ==
    /\ pc = "resolve_iso3"
    /\ ui.resolved_iso3 = NoIso3 /\ ~ui.allow_online_fallback
    /\ Stop("fetch_failed")
    /\ UNCHANGED <<engVars, ui, h, net, session_state, ss_before, loaderVars, sideVars>>

\* lines 123-129: the online lookup answers with a code
Iso3OnlineOk ==
    /\ pc = "resolve_iso3"
    /\ ui.resolved_iso3 = NoIso3 /\ ui.allow_online_fallback
    /\ net' = net \cup {"name_lookup"}
    /\ \E iso \in Iso3s : h' = [h EXCEPT !.resolved_iso3 = iso]
    /\ pc' = "fetch_meta"
    /\ UNCHANGED <<engVars, ui, outcome, session_state, ss_before, loaderVars, sideVars>>

\* lines 123-130, 595-598: the online lookup fails
Iso3OnlineFails ==
    /\ pc = "resolve_iso3"
    /\ ui.resolved_iso3 = NoIso3 /\ ui.allow_online_fallback
    /\ net' = net \cup {"name_lookup"}
    /\ Stop("fetch_failed")
    /\ UNCHANGED <<engVars, ui, h, session_state, ss_before, loaderVars, sideVars>>

\* lines 199, 246: the metadata of this key is memoized
MetaMemoHit ==
    /\ pc = "fetch_meta"
    /\ Key \in DOMAIN memo_meta
    /\ h' = [h EXCEPT !.meta = memo_meta[Key]]
    /\ pc' = "download"
    /\ UNCHANGED <<engVars, ui, outcome, net, session_state, ss_before, loaderVars, sideVars>>

\* lines 200-206: the API is asked and answers
MetaFetched ==
    /\ pc = "fetch_meta"
    /\ Key \notin DOMAIN memo_meta
    /\ net' = net \cup {"metadata"}
    /\ \E m \in Metas(Key) :
          /\ h' = [h EXCEPT !.meta = m]
          /\ memo_meta' = (Key :> m) @@ memo_meta
    /\ pc' = "download"
    /\ UNCHANGED <<engVars, ui, outcome, session_state, ss_before, cache, memo_download, sideVars>>

\* lines 204-205, 595-598: the request fails
MetaFetchFails ==
    /\ pc = "fetch_meta"
    /\ Key \notin DOMAIN memo_meta
    /\ net' = net \cup {"metadata"}
    /\ Stop("fetch_failed")
    /\ UNCHANGED <<engVars, ui, h, session_state, ss_before, loaderVars, sideVars>>

\* lines 208, 247: this call of download_geoboundary_to_cache is memoized
DownloadMemoHit ==
    /\ pc = "download"
    /\ MemoKey \in DOMAIN memo_download
    /\ h' = [h EXCEPT !.used_url = memo_download[MemoKey][2]]
    /\ pc' = "read_boundary"
    /\ UNCHANGED <<engVars, ui, outcome, net, session_state, ss_before, loaderVars, sideVars>>

\* lines 231-232, 595-598
NoDownloadUrl ==
    /\ pc = "download"
    /\ MemoKey \notin DOMAIN memo_download
    /\ urls(h.meta, ui.prefer_simplified) = <<>>
    /\ Stop("fetch_failed")
    /\ UNCHANGED <<engVars, ui, h, net, session_state, ss_before, loaderVars, sideVars>>

\* lines 234-235, 240: the cache file exists, nothing is downloaded
CacheFileExists ==
    /\ pc = "download"
    /\ MemoKey \notin DOMAIN memo_download
    /\ urls(h.meta, ui.prefer_simplified) # <<>>
    /\ ~CacheMissing(cache, Key)
    /\ h' = [h EXCEPT !.used_url = urls(h.meta, ui.prefer_simplified)[1]]
    /\ memo_download' =
          (MemoKey :> <<Key, urls(h.meta, ui.prefer_simplified)[1]>>) @@ memo_download
    /\ pc' = "read_boundary"
    /\ UNCHANGED <<engVars, ui, outcome, net, session_state, ss_before, cache, memo_meta, sideVars>>

\* lines 234-237: the file is requested and arrives
DownloadGet ==
    /\ pc = "download"
    /\ MemoKey \notin DOMAIN memo_download
    /\ urls(h.meta, ui.prefer_simplified) # <<>>
    /\ CacheMissing(cache, Key)
    /\ net' = net \cup {"download"}
    /\ h' = [h EXCEPT !.used_url = urls(h.meta, ui.prefer_simplified)[1],
                      !.content = <<urls(h.meta, ui.prefer_simplified)[1]>>]
    /\ pc' = "write_cache"
    /\ UNCHANGED <<engVars, ui, outcome, session_state, ss_before, loaderVars, sideVars>>

\* lines 236-237, 595-598: the request fails
DownloadFails ==
    /\ pc = "download"
    /\ MemoKey \notin DOMAIN memo_download
    /\ urls(h.meta, ui.prefer_simplified) # <<>>
    /\ CacheMissing(cache, Key)
    /\ net' = net \cup {"download"}
    /\ Stop("fetch_failed")
    /\ UNCHANGED <<engVars, ui, h, session_state, ss_before, loaderVars, sideVars>>

\* lines 238-240: the bytes received are written to the cache file
WriteCache ==
    /\ pc = "write_cache"
    /\ cache' = (Key :> [url |-> h.content[1]]) @@ cache
    /\ memo_download' = (MemoKey :> <<Key, h.used_url>>) @@ memo_download
    /\ pc' = "read_boundary"
    /\ UNCHANGED <<engVars, ui, h, outcome, net, session_state, ss_before, memo_meta, sideVars>>

\* lines 248-249: the cache file is read
ReadBoundary ==
    /\ pc = "read_boundary"
    /\ Key \in DOMAIN cache
    /\ h' = [h EXCEPT !.boundary_raw = ServerFile(cache[Key].url),
                      !.has_geob_info = TRUE]
    /\ pc' = "filter_boundary"
    /\ UNCHANGED <<engVars, ui, outcome, net, session_state, ss_before, loaderVars, sideVars>>

\* lines 600-602
BoundaryFileMissing ==
    /\ pc = "load_boundary_file"
    /\ ~ui.uploaded_boundary.present
    /\ Stop("no_boundary_file")
    /\ UNCHANGED <<engVars, ui, h, net, session_state, ss_before, loaderVars, sideVars>>

\* lines 603-607
BoundaryFileUnreadable ==
    /\ pc = "load_boundary_file"
    /\ ui.uploaded_boundary.present /\ ~ui.uploaded_boundary.readable
    /\ Stop("boundary_unreadable")
    /\ UNCHANGED <<engVars, ui, h, net, session_state, ss_before, loaderVars, sideVars>>

\* line 604
BoundaryFileLoaded ==
    /\ pc = "load_boundary_file"
    /\ ui.uploaded_boundary.present /\ ui.uploaded_boundary.readable
    /\ h' = [h EXCEPT !.boundary_raw = ui.uploaded_boundary.features]
    /\ pc' = "filter_boundary"
    /\ UNCHANGED <<engVars, ui, outcome, net, session_state, ss_before, loaderVars, sideVars>>

\* lines 609-612
BoundaryEmpty ==
    /\ pc = "filter_boundary"
    /\ gdf_empty(PolygonFilter(h.boundary_raw))
    /\ Stop("boundary_empty")
    /\ UNCHANGED <<engVars, ui, h, net, session_state, ss_before, loaderVars, sideVars>>

\* lines 609-628: the boundary is kept and snap_and_clip is called with the
\* values of the advanced options
CallSnapAndClip ==
    /\ pc = "filter_boundary"
    /\ ~gdf_empty(PolygonFilter(h.boundary_raw))
    /\ h' = [h EXCEPT !.boundary_gdf = FixedGeoms(PolygonFilter(h.boundary_raw))]
    /\ \E w \in WidgetParams :
          args' = [subject_gdf |-> h.subj_gdf,
                   boundary_gdf |-> FixedGeoms(PolygonFilter(h.boundary_raw)),
                   tolerance_m |-> w.tolerance_m,
                   include_islands_within_m |-> w.include_islands_within_m,
                   simplify_tol_m |-> w.simplify_tol_m,
                   precision_grid_m |-> w.precision_grid_m,
                   match_buffer_m |-> w.match_buffer_m]
    /\ f' = Frame0
    /\ epc' = "match"
    /\ pc' = "snap_and_clip"
    /\ UNCHANGED <<ui, outcome, net, session_state, ss_before, loaderVars, sideVars>>

\* lines 629-632
SnapAndClipFailed ==
    /\ pc = "snap_and_clip"
    /\ epc = "raised"
    /\ Stop("engine_failed")
    /\ epc' = "idle"
    /\ UNCHANGED <<args, f, ui, h, net, session_state, ss_before, loaderVars, sideVars>>

\* lines 637-655: what the run stores
Stored(ss, result_gdf) ==
    LET written ==
            [k \in {"map_center", "map_original", "map_boundary", "map_result",
                    "report", "result_geojson", "result_kml"} |->
                CASE k = "map_center"     -> h.subj_gdf.lonlat
                  [] k = "map_original"   -> h.subj_gdf.features
                  [] k = "map_boundary"   -> h.boundary_gdf
                  [] k = "map_result"     -> result_gdf
                  [] k = "report"         -> f.report
                  [] k = "result_geojson" -> result_gdf
                  [] k = "result_kml"     -> gdf_to_simple_kml(result_gdf)]
        geob ==
            [k \in {"geob_info", "iso3", "release", "adm_level"} |->
                CASE k = "geob_info" -> [meta |-> h.meta, downloaded_url |-> h.used_url,
                                         cache_file |-> Key]
                  [] k = "iso3"      -> h.resolved_iso3
                  [] k = "release"   -> ui.release
                  [] k = "adm_level" -> ui.adm_level]
    IN  IF h.has_geob_info THEN geob @@ written @@ ss
        ELSE written @@ [k \in DOMAIN ss \ {"geob_info"} |-> ss[k]]

\* lines 634-655: the result is dissolved and stored
Persist ==
    /\ pc = "snap_and_clip"
    /\ epc = "returned"
    /\ session_state' =
          Stored(session_state,
                 dissolve_to_single_feature(f.result, args.precision_grid_m))
    /\ outcome' = "ok"
    /\ pc' = "done"
    /\ epc' = "idle"
    /\ UNCHANGED <<args, f, ui, h, net, ss_before, loaderVars, sideVars>>

run_btn ==
    \/ RunClick
    \/ UploadMissing \/ SubjectUnreadable \/ SubjectNoPolygons \/ SubjectLoaded
    \/ Iso3Known \/ Iso3OfflineFails \/ Iso3OnlineOk \/ Iso3OnlineFails
    \/ MetaMemoHit \/ MetaFetched \/ MetaFetchFails
    \/ DownloadMemoHit \/ NoDownloadUrl \/ CacheFileExists \/ DownloadGet
    \/ DownloadFails \/ WriteCache \/ ReadBoundary
    \/ BoundaryFileMissing \/ BoundaryFileUnreadable \/ BoundaryFileLoaded
    \/ BoundaryEmpty \/ CallSnapAndClip \/ SnapAndClipFailed \/ Persist

(***************************************************************************)
(* The application: runs of the handler, one after the other               *)
(***************************************************************************)
ProjIdle ==
    /\ lonlat_in = NoLonLat
    /\ crs_out = 0

\* the runs that may execute the loader at the same time
NRuns == 2
Runs == 1 .. NRuns

\* a run's locals in download_geoboundary_to_cache and load_geoboundary_gdf
CLoc0 == [used_url |-> <<>>, content |-> <<>>, gdf |-> <<>>]

DissIdle ==
    /\ gdf_in = NoneGdf
    /\ grid_in = 0
    /\ gdf_out = <<>>

ConcIdle ==
    /\ c_meta = <<>>
    /\ c_pref = [r \in Runs |-> FALSE]
    /\ c_pc = [r \in Runs |-> "idle"]
    /\ c_loc = [r \in Runs |-> CLoc0]
    /\ c_file = <<>>
    /\ c_memo = <<>>

SideIdle == ProjIdle /\ DissIdle /\ ConcIdle

AppIdle ==
    /\ pc = "idle"
    /\ ui = UiDefaults
    /\ h = H0
    /\ outcome = "none"
    /\ net = {}
    /\ session_state = <<>>
    /\ ss_before = <<>>
    /\ cache = <<>>
    /\ memo_meta = <<>>
    /\ memo_download = <<>>


Init ==
    /\ args = NoArgs
    /\ f = Frame0
    /\ epc = "idle"
    /\ AppIdle
    /\ SideIdle

Next == run_btn \/ snap_and_clip

Spec == Init /\ [][Next]_vars

(***************************************************************************)
(* The engine alone: one call of snap_and_clip on any of the inputs        *)
(***************************************************************************)
EngineInit ==
    /\ args \in EngineArgs
    /\ f = Frame0
    /\ epc = "match"
    /\ AppIdle
    /\ SideIdle

EngineNext == snap_and_clip

SpecEngine == EngineInit /\ [][EngineNext]_vars

(***************************************************************************)
(* The projection selector alone                                           *)
(***************************************************************************)
\* centroids: every whole degree of longitude, latitudes of both
\* hemispheres and the equator
Lons == (0 - 180) .. 180
Lats == {0 - 60, 0 - 1, 0, 1, 60}

ProjInit ==
    /\ args = NoArgs
    /\ f = Frame0
    /\ epc = "idle"
    /\ AppIdle
    /\ lonlat_in \in (Lons \X Lats) \cup {NoLonLat}
    /\ crs_out = 0
    /\ DissIdle
    /\ ConcIdle

\* lines 254-261
ChooseProjectedCrs ==
    /\ crs_out = 0
    /\ crs_out' = choose_projected_crs(lonlat_in)
    /\ UNCHANGED <<lonlat_in, engVars, appVars, dissVars, concVars>>

ProjNext == ChooseProjectedCrs

SpecProj == ProjInit /\ [][ProjNext]_vars

(***************************************************************************)
(* dissolve_to_single_feature alone                                        *)
(***************************************************************************)
\* the most rows a frame handed to it holds
MaxRows == 2

DissolveGeoms == {F_A, F_B, F_C, {}, {<<20, 70>>}}
DissolveRows == UNION {[1 .. k -> DissolveGeoms] : k \in 0 .. MaxRows}
\* crs 0 stands for a frame without CRS
DissolveFrames ==
    {NoneGdf} \cup [crs : {0, 4326, 32648}, geometry : DissolveRows]

DissolveInit ==
    /\ args = NoArgs
    /\ f = Frame0
    /\ epc = "idle"
    /\ AppIdle
    /\ ProjIdle
    /\ ConcIdle
    /\ gdf_in \in DissolveFrames
    /\ grid_in \in PrecisionGrids
    /\ gdf_out = <<>>

\* lines 87-92
Dissolve ==
    /\ gdf_out = <<>>
    /\ gdf_out' = <<dissolve_to_single_feature(gdf_in, grid_in)>>
    /\ UNCHANGED <<gdf_in, grid_in, engVars, appVars, projVars, concVars>>

DissolveNext == Dissolve

SpecDissolve == DissolveInit /\ [][DissolveNext]_vars

(***************************************************************************)
(* The loader run by several script runs at the same time (one thread per  *)
(* session): all runs ask for the same key and share its memoized metadata *)
(***************************************************************************)
ConcKey == CacheKey("AAA", 0, "gbOpen")

ConcInit ==
    /\ args = NoArgs
    /\ f = Frame0
    /\ epc = "idle"
    /\ AppIdle
    /\ ProjIdle
    /\ DissIdle
    /\ c_meta \in Metas(ConcKey)
    /\ c_pref \in [Runs -> BOOLEAN]
    /\ c_pc = [r \in Runs |-> "download"]
    /\ c_loc = [r \in Runs |-> CLoc0]
    /\ c_file = <<>>
    /\ c_memo = <<>>

\* the positions inside the body of download_geoboundary_to_cache
CBody == {"exists", "write_open", "write_data"}

\* line 208: st.cache_data computes one value per argument tuple at a
\* time; a call whose arguments differ from those being computed proceeds
CMayCompute(r) ==
    /\ c_pref[r] \notin DOMAIN c_memo
    /\ \A q \in Runs \ {r} : c_pref[q] = c_pref[r] => c_pc[q] \notin CBody

CFrame == UNCHANGED <<c_meta, c_pref, engVars, appVars, projVars, dissVars>>

\* lines 208, 247: the call is memoized
CMemoHit(r) ==
    /\ c_pc[r] = "download"
    /\ c_pref[r] \in DOMAIN c_memo
    /\ c_loc' = [c_loc EXCEPT ![r].used_url = c_memo[c_pref[r]]]
    /\ c_pc' = [c_pc EXCEPT ![r] = "read"]
    /\ UNCHANGED <<c_file, c_memo>>
    /\ CFrame

\* lines 217-232: no URL in the metadata
CNoUrl(r) ==
    /\ c_pc[r] = "download"
    /\ CMayCompute(r)
    /\ urls(c_meta, c_pref[r]) = <<>>
    /\ c_pc' = [c_pc EXCEPT ![r] = "failed"]
    /\ UNCHANGED <<c_loc, c_file, c_memo>>
    /\ CFrame

\* lines 217-234: used_url = urls[0]
CEnter(r) ==
    /\ c_pc[r] = "download"
    /\ CMayCompute(r)
    /\ urls(c_meta, c_pref[r]) # <<>>
    /\ c_loc' = [c_loc EXCEPT ![r].used_url = urls(c_meta, c_pref[r])[1]]
    /\ c_pc' = [c_pc EXCEPT ![r] = "exists"]
    /\ UNCHANGED <<c_file, c_memo>>
    /\ CFrame

\* lines 235, 240: cache_fname.exists() is true, the call returns
CExists(r) ==
    /\ c_pc[r] = "exists"
    /\ c_file # <<>>
    /\ c_memo' = (c_pref[r] :> c_loc[r].used_url) @@ c_memo
    /\ c_pc' = [c_pc EXCEPT ![r] = "read"]
    /\ UNCHANGED <<c_loc, c_file>>
    /\ CFrame

\* lines 235-237: the file does not exist, it is requested and arrives
CGet(r) ==
    /\ c_pc[r] = "exists"
    /\ c_file = <<>>
    /\ c_loc' = [c_loc EXCEPT ![r].content = <<c_loc[r].used_url>>]
    /\ c_pc' = [c_pc EXCEPT ![r] = "write_open"]
    /\ UNCHANGED <<c_file, c_memo>>
    /\ CFrame

\* lines 236-237: the request fails
CGetFails(r) ==
    /\ c_pc[r] = "exists"
    /\ c_file = <<>>
    /\ c_pc' = [c_pc EXCEPT ![r] = "failed"]
    /\ UNCHANGED <<c_loc, c_file, c_memo>>
    /\ CFrame

\* line 238, write_bytes: the file is opened for writing, which creates
\* or truncates it
CWriteOpen(r) ==
    /\ c_pc[r] = "write_open"
    /\ c_file' = <<[url |-> c_loc[r].content[1], complete |-> FALSE]>>
    /\ c_pc' = [c_pc EXCEPT ![r] = "write_data"]
    /\ UNCHANGED <<c_loc, c_memo>>
    /\ CFrame

\* lines 238-240, write_bytes: the bytes are written and the file closed
CWriteData(r) ==
    /\ c_pc[r] = "write_data"
    /\ c_file' = <<[url |-> c_loc[r].content[1], complete |-> TRUE]>>
    /\ c_memo' = (c_pref[r] :> c_loc[r].used_url) @@ c_memo
    /\ c_pc' = [c_pc EXCEPT ![r] = "read"]
    /\ UNCHANGED c_loc
    /\ CFrame

\* line 248: gpd.read_file(cache_path) reads what the file holds now
CRead(r) ==
    /\ c_pc[r] = "read"
    /\ c_loc' = [c_loc EXCEPT ![r].gdf = c_file]
    /\ c_pc' = [c_pc EXCEPT ![r] = "done"]
    /\ UNCHANGED <<c_file, c_memo>>
    /\ CFrame

load_geoboundary_gdf(r) ==
    \/ CMemoHit(r) \/ CNoUrl(r) \/ CEnter(r) \/ CExists(r) \/ CGet(r)
    \/ CGetFails(r) \/ CWriteOpen(r) \/ CWriteData(r) \/ CRead(r)

ConcNext == \E r \in Runs : load_geoboundary_gdf(r)

SpecConc == ConcInit /\ [][ConcNext]_vars

(***************************************************************************)
(* Properties of snap_and_clip                                             *)
(***************************************************************************)
InCall == epc \notin {"idle", "match"}

\* the target boundary polygon built from the matched candidate features
TargetPolygon == UnaryUnion({args.boundary_gdf[k] : k \in f.candidates})

ResultGeom == f.result.geometry[1]

\* C1: the geometry snap_and_clip returns lies inside the target boundary
\* polygon built from the matched candidate features, whatever the
\* tolerance, island radius, simplification tolerance and precision grid
C1_NonExpansion ==
    epc = "returned" => Within(ResultGeom, TargetPolygon)

\* C2: once the candidates are selected from a non-empty boundary
\* collection, at least one boundary feature is among them
C2_MatcherNonEmpty ==
    (InCall /\ Len(args.boundary_gdf) > 0) =>
        /\ f.candidates # {}
        /\ f.candidates \subseteq DOMAIN args.boundary_gdf

\* a call in which neither the buffer nor the centroid selection finds a
\* feature has selected its candidates
C2_Witness ==
    /\ InCall
    /\ ByBuffer(subject_union, args.boundary_gdf, args.match_buffer_m) = {}
    /\ ByCentroid(subject_union, args.boundary_gdf) = {}
    /\ f.candidates # {}

\* C3: the boundary line-work used for snapping and the target polygon
\* used for clipping and island difference are the unquantized geometry of
\* the candidate features, for every precision grid
C3_BoundaryNotQuantized ==
    (InCall /\ epc # "prepare") =>
        /\ f.boundary_lines_proj = Boundary(TargetPolygon)
        /\ f.target_proj = TargetPolygon

\* C4: when the snap or the clip yields an empty geometry for a non-empty
\* subject, the geometry returned is not empty
C4_DegradedNotEmpty ==
    (/\ epc = "returned"
     /\ subject_union # EmptyGeom
     /\ (f.snapped = EmptyGeom \/ f.clipped_plain = EmptyGeom))
        => ResultGeom # EmptyGeom

\* C5 as stated: a second snap attempt is made at exactly one-fifth of
\* tolerance_m
C5_RetryOneFifth ==
    (InCall /\ Len(f.snap_calls) = 2) => 5 * f.snap_calls[2] = args.tolerance_m

\* C5 amended: shapely_snap is called at most twice, first at tolerance_m
\* and, only after that call failed, at max(1 m, tolerance_m / 5); a
\* failure of the second call leaves snap_and_clip as an exception
C5_SnapCalls ==
    /\ Len(f.snap_calls) <= 2
    /\ Len(f.snap_calls) >= 1 => f.snap_calls[1] = args.tolerance_m
    /\ Len(f.snap_calls) = 2 =>
            f.snap_calls[2] = Max(M(1), args.tolerance_m \div 5)
    /\ epc = "snap_retry" => Len(f.snap_calls) = 1
    /\ epc \in {"idle", "match", "prepare", "snap"} => Len(f.snap_calls) = 0

C5_RetryFloor ==
    /\ []C5_SnapCalls
    /\ [][epc = "snap_retry" =>
            \/ epc' = "raised" /\ f'.snapped = f.snapped
            \/ epc' = "clip" /\ f'.snapped =
                   Fix(Snap(f.subject_proj, f.boundary_lines_proj, f'.snap_calls[2]))]_vars

\* a tolerance below 5 m whose first snap failed and whose retry produced
\* the snapped geometry
C5_Witness ==
    /\ epc = "clip"
    /\ Len(f.snap_calls) = 2
    /\ args.tolerance_m < M(5)

\* C6: an exception inside the island block does not leave snap_and_clip;
\* the geometry returned is the clip result without any island piece and
\* the report says islands_included = false, island_parts_added = 0
C6_IslandFailSafe ==
    f.island_raised =>
        /\ epc \in {"finish", "returned", "raised"}
        /\ epc = "raised" => args.simplify_tol_m > 0
        /\ f.clipped = f.clipped_plain
        /\ epc = "returned" =>
            /\ ResultGeom = clipped_clean(f.clipped_plain)
            /\ f.report.islands_included = FALSE
            /\ f.report.island_parts_added = 0

\* the union of selected island pieces raised and the call returned
C6_Witness ==
    /\ epc = "returned"
    /\ f.island_raised
    /\ f.extra_parts # {}
    /\ UnaryUnion({f.clipped_plain, f.extra_parts}) # f.clipped_plain

(***************************************************************************)
(* Properties of the run handler and the boundary cache                    *)
(***************************************************************************)
\* the upload is missing or holds no Polygon / MultiPolygon feature
UploadInvalid ==
    \/ ~ui.uploaded_poly.present
    \/ /\ ui.uploaded_poly.readable
       /\ PolygonRows(ui.uploaded_poly.features) = <<>>

\* the boundary file is missing, or the boundary data loaded holds no
\* Polygon / MultiPolygon feature
BoundaryInvalid ==
    \/ ui.boundary_source = UPLOAD /\ ~ui.uploaded_boundary.present
    \/ /\ \/ h.has_geob_info
          \/ /\ ui.boundary_source = UPLOAD
             /\ ui.uploaded_boundary.present /\ ui.uploaded_boundary.readable
       /\ PolygonRows(h.boundary_raw) = <<>>

\* C7: a run whose upload is missing or holds no polygon feature issues no
\* request (metadata, download, name lookup) and ends with the input error
C7_NoFetchBeforeValidation ==
    (pc # "idle" /\ UploadInvalid) =>
        /\ net = {}
        /\ pc \in {"load_subject", "done"}
        /\ pc = "done" => outcome \in {"no_upload", "no_polygons"}

\* a run on a fresh application, whose upload holds only lines and points,
\* has ended
C7_Witness ==
    /\ pc = "done"
    /\ outcome = "no_polygons"
    /\ ui.uploaded_poly.features # <<>>
    /\ memo_meta = <<>> /\ cache = <<>>

\* C8: a run that ends in an input error (missing upload, no polygons in
\* the upload, missing boundary file, boundary data without polygons)
\* leaves st.session_state as it was when Run was clicked
C8_NoPartialResult ==
    (pc = "done" /\ (outcome \in InputErrors \/ UploadInvalid \/ BoundaryInvalid)) =>
        /\ outcome \in InputErrors
        /\ session_state = ss_before

\* a run after a successful one ends on a boundary file without polygons
C8_Witness ==
    /\ pc = "done"
    /\ outcome = "boundary_empty"
    /\ "map_result" \in DOMAIN session_state
    /\ session_state = ss_before

\* C9: for a centroid longitude in [-180, 180] the zone is
\* floor((lon + 180) / 6) + 1, one of 1..60, and the identifier is
\* 32600 + zone on the northern hemisphere (lat >= 0), 32700 + zone on the
\* southern
C9_StandardZone ==
    (crs_out # 0 /\ lonlat_in # NoLonLat) =>
        LET zone == ((lonlat_in[1] + 180) \div 6) + 1
        IN  /\ zone \in 1 .. 60
            /\ crs_out = (IF lonlat_in[2] >= 0 THEN 32600 ELSE 32700) + zone

\* C10: a cache file, once written, keeps its content, and no download is
\* requested for a key whose cache file exists
C10_CacheReuse ==
    /\ [][\A k \in DOMAIN cache : k \in DOMAIN cache' /\ cache'[k] = cache[k]]_vars
    /\ [][("download" \in net' /\ "download" \notin net) => Key \notin DOMAIN cache]_vars
    /\ [][pc' = "write_cache" => Key \notin DOMAIN cache]_vars

\* a later run with the key of a cached file executed
\* download_geoboundary_to_cache again and requested no download
C10_Witness ==
    /\ pc = "read_boundary"
    /\ Key \in DOMAIN cache
    /\ "download" \notin net
    /\ Cardinality({mk \in DOMAIN memo_download : mk[2] = Key}) = 2

(***************************************************************************)
(* Further properties of snap_and_clip and of dissolve_to_single_feature   *)
(***************************************************************************)
\* C12: for a frame with at least one row dissolve_to_single_feature
\* returns a frame of exactly one row with the input's CRS, unquantized
\* when precision_grid_m is 0; an empty frame and None are returned as
\* they are
C12_SingleFeature ==
    gdf_out # <<>> =>
        IF gdf_in = NoneGdf THEN gdf_out[1] = NoneGdf
        ELSE IF Len(gdf_in.geometry) = 0 THEN gdf_out[1] = gdf_in
        ELSE /\ Len(gdf_out[1].geometry) = 1
             /\ gdf_out[1].crs = gdf_in.crs
             /\ grid_in = 0 =>
                    gdf_out[1].geometry[1] = UnaryUnion(Feats(gdf_in.geometry))

\* a projected frame of two rows was dissolved on a precision grid
C12_Witness ==
    /\ gdf_out # <<>>
    /\ gdf_in # NoneGdf
    /\ Len(gdf_in.geometry) = 2
    /\ gdf_in.geometry[1] # gdf_in.geometry[2]
    /\ gdf_in.crs = 32648
    /\ grid_in > 0
    /\ Len(gdf_out[1].geometry) = 1

\* C13: the candidates are the features intersecting the buffered subject
\* when there are any; else the features containing the subject's
\* centroid when there are any; else exactly one feature, one of smallest
\* centroid-to-centroid distance to the subject
C13_CascadeOrder ==
    (InCall /\ Len(args.boundary_gdf) > 0) =>
        LET B == ByBuffer(subject_union, args.boundary_gdf, args.match_buffer_m)
            C == ByCentroid(subject_union, args.boundary_gdf)
        IN  /\ B # {} => f.candidates = B
            /\ (B = {} /\ C # {}) => f.candidates = C
            /\ (B = {} /\ C = {}) =>
                  \E k \in DOMAIN args.boundary_gdf :
                     /\ f.candidates = {k}
                     /\ \A j \in DOMAIN args.boundary_gdf :
                           centroid_dist(subject_union, args.boundary_gdf, k)
                              <= centroid_dist(subject_union, args.boundary_gdf, j)

\* a call returned whose candidates come from the nearest-centroid
\* selection, the nearest feature being the second row of two
C13_Witness ==
    /\ epc = "returned"
    /\ MatchStage(subject_union, args.boundary_gdf, args.match_buffer_m) = "nearest"
    /\ Len(args.boundary_gdf) = 2
    /\ f.candidates = {2}

\* C14: the report's used_tolerance_m is the tolerance of the snap call
\* that produced the snapped geometry
C14_UsedTolerance ==
    (epc = "returned" /\ Len(f.snap_calls) >= 1) =>
        f.report.used_tolerance_m = f.snap_calls[Len(f.snap_calls)]

(***************************************************************************)
(* Further properties of the boundary cache                                *)
(***************************************************************************)
\* C11: when runs populate the cache file of one key at the same time, a
\* run that reads the file reads the complete content of one finished
\* download, and all downloads written hold the same content
C11_AtomicPopulate ==
    /\ \A r \in Runs :
          c_pc[r] = "done" => (c_loc[r].gdf # <<>> /\ c_loc[r].gdf[1].complete)
    /\ \A r, q \in Runs :
          (c_loc[r].content # <<>> /\ c_loc[q].content # <<>>)
              => c_loc[r].content = c_loc[q].content

\* C15: the downloaded_url load_geoboundary_gdf reports is the URL the
\* content of the cache file it loaded was downloaded from
C15_ReportedUrl ==
    h.has_geob_info =>
        /\ Key \in DOMAIN cache
        /\ h.used_url = cache[Key].url

====
